---- MODULE Spec2Model ----
(***************************************************************************)
(* Token lifecycle manager of src/auth.py: get_beatport_token,             *)
(* refresh_token, get_current_token and make_api_request, with the token   *)
(* file '.beatport_token.json', the local clock and the two HTTP           *)
(* endpoints as environment.                                               *)
(***************************************************************************)
EXTENDS Integers, Sequences, FiniteSets, TLC

VARIABLES file, now, last, writer, reader

vars == <<file, now, last, writer, reader>>

(* ------------------------------ bounds --------------------------------- *)

\* the local clock runs over 1..MaxNow
MaxNow == 2
\* numeric expires_in values of a server response range over 0..MaxExpiresIn
MaxExpiresIn == 1
\* clock ticks that may pass between the expiry test and the issuance
MaxLatency == 1

(* --------------------------- program constants -------------------------- *)

\* token_data.get('expires_in', 3600)
DefaultExpiresIn == 3600
\* the clock value of the sentinel '2000-01-01', before every clock value
Year2000 == 0

(* ------------------------- JSON / Python values ------------------------- *)

\* a JSON value as Python holds it: k is its kind, s its text, n its number
JV(k, s, n) == [k |-> k, s |-> s, n |-> n]
\* the key is not in the dict
Absent == JV("absent", "", 0)
\* Python None / JSON null
Null == JV("null", "", 0)
Str(s) == JV("str", s, 0)
Num(n) == JV("num", "", n)

\* Python's `not v`
Truthy(v) ==
  /\ v.k # "null"
  /\ v.k # "absent"
  /\ ~(v.k = "str" /\ v.s = "")
  /\ ~(v.k = "num" /\ v.n = 0)

\* an exception raised by an expression / Python None for a dict result
None == <<>>
Some(x) == <<x>>

KeySet == {"access_token", "refresh_token", "expires_in", "expires_at"}
KeyOrder == <<"access_token", "refresh_token", "expires_in", "expires_at">>

\* dict.get(key, default); dict.get(key) is dict_get(d, key, Null)
dict_get(d, key, default) == IF d[key].k = "absent" THEN default ELSE d[key]

(* ------------------------------ datetime -------------------------------- *)

\* datetime.isoformat() of a naive datetime: the string that spells clock value t
isoformat(t) == JV("iso", "", t)
\* a timestamp string carrying a UTC offset, as another writer may have left it
AwareText(t) == JV("aware", "", t)

\* datetime.fromisoformat(v): raises on a non-string or a string that is no timestamp
fromisoformat(v) ==
  IF v.k = "iso" THEN Some([aware |-> FALSE, t |-> v.n])
  ELSE IF v.k = "aware" THEN Some([aware |-> TRUE, t |-> v.n])
  ELSE None

\* timedelta(seconds=v): raises on a value that is no finite number (None, a string, inf)
timedelta(v) == IF v.k = "num" THEN Some(v.n) ELSE None

\* variant: the test is strict, so a record is still served at now = expires_at
expired_strict(dt, clock) == IF dt.aware THEN None ELSE Some(dt.t < clock)

\* variant: the test refreshes one tick early
expired_early(dt, clock) == IF dt.aware THEN None ELSE Some(dt.t <= clock + 1)

\* expires_at <= datetime.now(): raises TypeError when expires_at is offset-aware
expired(dt, clock) == IF dt.aware THEN None ELSE Some(dt.t <= clock)

(* ------------------------------ token file ------------------------------ *)

LBrace == [key |-> "{", val |-> Absent]
RBrace == [key |-> "}", val |-> Absent]

RECURSIVE pairs(_, _)
\* the key/value chunks of dict d for the keys KeyOrder[i..]
pairs(d, i) ==
  IF i > Len(KeyOrder) THEN <<>>
  ELSE (IF d[KeyOrder[i]].k = "absent" THEN <<>>
        ELSE <<[key |-> KeyOrder[i], val |-> d[KeyOrder[i]]]>>) \o pairs(d, i + 1)

\* variant: the dump starts one key late and loses the access_token
json_dump_skip(d) == <<LBrace>> \o pairs(d, 2) \o <<RBrace>>

\* json.dump(d, f): the chunks written to the file
json_dump(d) == <<LBrace>> \o pairs(d, 1) \o <<RBrace>>

\* json.load(f): the dict of a complete text, an exception on an empty or cut one
json_load(text) ==
  IF /\ Len(text) >= 2
     /\ text[1] = LBrace
     /\ text[Len(text)] = RBrace
     /\ \A i \in 2..(Len(text) - 1) : text[i].key \in KeySet
  THEN Some([k \in KeySet |->
              IF \E i \in 2..(Len(text) - 1) : text[i].key = k
              THEN text[CHOOSE i \in 2..(Len(text) - 1) :
                          /\ text[i].key = k
                          /\ \A j \in (i + 1)..(Len(text) - 1) : text[j].key # k].val
              ELSE Absent])
  ELSE None

\* os.path.exists is FALSE
NoFile == [exists |-> FALSE, text |-> <<>>]
FileOf(text) == [exists |-> TRUE, text |-> text]

\* variant: the record is dumped as the server sent it, before expires_at is set
write_file_raw(token_data) == FileOf(json_dump([token_data EXCEPT !.expires_at = Absent]))

\* with open('.beatport_token.json', 'w') as f: json.dump(token_data, f)
write_file(token_data) == FileOf(json_dump(token_data))

(* ---------------------------- HTTP responses ---------------------------- *)

EmptyDict == [k \in KeySet |-> Absent]

MkDict(a, r, ei, ea) ==
  [access_token |-> a, refresh_token |-> r, expires_in |-> ei, expires_at |-> ea]

AccessVals == {Absent, Str(""), Str("A")}
RefreshVals == {Absent, Str("R1")}
ExpiresInVals == {Absent, Null} \cup {Num(n) : n \in 0..MaxExpiresIn}

\* the JSON objects a token response may carry; the last ones bring an expires_at of their own
ResponseDicts ==
  {MkDict(a, r, ei, Absent) : a \in AccessVals, r \in RefreshVals, ei \in ExpiresInVals}
  \cup {MkDict(Str("A"), Str("R1"), ei, isoformat(Year2000)) : ei \in ExpiresInVals}

\* what requests.post(url, data=payload) can yield
AuthResponses ==
  {[kind |-> k, body |-> EmptyDict] : k \in {"conn_error", "http_error", "bad_json", "not_dict"}}
  \cup {[kind |-> "dict", body |-> d] : d \in ResponseDicts}

\* response.raise_for_status(); token_data = response.json(); token_data.get(...)
parsed_token_data(resp) == IF resp.kind = "dict" THEN Some(resp.body) ELSE None

(* ------------------------------ operations ------------------------------ *)

\* variant: an expires_at the server sent is kept (setdefault instead of assignment)
with_expires_at_keep(token_data, clock, delta) ==
  IF token_data.expires_at.k = "absent"
  THEN [token_data EXCEPT !.expires_at = isoformat(clock + delta)]
  ELSE token_data

\* variant: the timedelta is not added
with_expires_at_now(token_data, clock, delta) ==
  [token_data EXCEPT !.expires_at = isoformat(clock)]

\* token_data['expires_at'] = (datetime.now() + timedelta(seconds=expires_in)).isoformat()
with_expires_at(token_data, clock, delta) ==
  [token_data EXCEPT !.expires_at = isoformat(clock + delta)]

\* except Exception: ... return None, in get_beatport_token
acquire_failed(f, payload) == [ret |-> None, file |-> f, payload |-> payload]

get_beatport_token(username, password, save_to_file, resp, clock, f) ==
  LET payload == [grant_type |-> "password", username |-> username,
                  password |-> password, refresh_token |-> Absent]
      td == parsed_token_data(resp)
  IN  IF td = None THEN acquire_failed(f, payload)
      ELSE LET expires_in == dict_get(td[1], "expires_in", Num(DefaultExpiresIn))
               delta == timedelta(expires_in)
           IN  IF delta = None THEN acquire_failed(f, payload)
               ELSE LET token_data == with_expires_at(td[1], clock, delta[1])
                    IN  [ret |-> Some(token_data),
                         file |-> IF save_to_file THEN write_file(token_data) ELSE f,
                         payload |-> payload]

\* variant: the file is opened for writing before the request, so a failure leaves it empty
refresh_failed_trunc(f, payload) == [ret |-> None, file |-> FileOf(<<>>), payload |-> payload]

\* variant: the new fields are merged into the record read from the file
refresh_token_merge(refresh_token_str, resp, clock, f) ==
  LET payload == [grant_type |-> "refresh_token", username |-> Absent,
                  password |-> Absent, refresh_token |-> refresh_token_str]
      td == parsed_token_data(resp)
      old == IF f.exists /\ json_load(f.text) # None THEN json_load(f.text)[1] ELSE EmptyDict
  IN  IF td = None THEN [ret |-> None, file |-> f, payload |-> payload]
      ELSE LET expires_in == dict_get(td[1], "expires_in", Num(DefaultExpiresIn))
               delta == timedelta(expires_in)
           IN  IF delta = None THEN [ret |-> None, file |-> f, payload |-> payload]
               ELSE LET new == [td[1] EXCEPT !.expires_at = isoformat(clock + delta[1])]
                        token_data == [k \in KeySet |->
                                         IF new[k].k = "absent" THEN old[k] ELSE new[k]]
                    IN  [ret |-> Some(token_data),
                         file |-> FileOf(json_dump(token_data)),
                         payload |-> payload]

\* except Exception: ... return None, in refresh_token
refresh_failed(f, payload) == [ret |-> None, file |-> f, payload |-> payload]

refresh_token(refresh_token_str, resp, clock, f) ==
  LET payload == [grant_type |-> "refresh_token", username |-> Absent,
                  password |-> Absent, refresh_token |-> refresh_token_str]
      td == parsed_token_data(resp)
  IN  IF td = None THEN refresh_failed(f, payload)
      ELSE LET expires_in == dict_get(td[1], "expires_in", Num(DefaultExpiresIn))
               delta == timedelta(expires_in)
           IN  IF delta = None THEN refresh_failed(f, payload)
               ELSE LET token_data == with_expires_at(td[1], clock, delta[1])
                    IN  [ret |-> Some(token_data),
                         file |-> write_file(token_data),
                         payload |-> payload]

\* variant: the file is opened in a creating mode, so a call without a refresh leaves a file
NoRefresh_create(tok, f) ==
  [ret |-> tok, file |-> IF f.exists THEN f ELSE FileOf(<<>>),
   refreshes |-> 0, issued |-> None, payload |-> None]

\* variant: a file that yields no token is removed
NoRefresh_unlink(tok, f) ==
  [ret |-> tok, file |-> IF tok = Null THEN NoFile ELSE f,
   refreshes |-> 0, issued |-> None, payload |-> None]

\* the outcome of get_current_token when no refresh request is made
NoRefresh(tok, f) ==
  [ret |-> tok, file |-> f, refreshes |-> 0, issued |-> None, payload |-> None]

\* variant: a failed refresh is tried once more before giving up
refresh_expired_retry(token_data, resp, clock2, f) ==
  LET new_token_data ==
        refresh_token(dict_get(token_data, "refresh_token", Null), resp, clock2, f)
  IN  [ret |-> IF new_token_data.ret # None
               THEN dict_get(new_token_data.ret[1], "access_token", Null)
               ELSE Null,
       file |-> new_token_data.file,
       refreshes |-> IF new_token_data.ret # None THEN 1 ELSE 2,
       issued |-> new_token_data.ret,
       payload |-> Some(new_token_data.payload)]

\* variant: a record without a refresh_token is given up locally, without a request
refresh_expired_guarded(token_data, resp, clock2, f) ==
  IF dict_get(token_data, "refresh_token", Null) = Null
  THEN NoRefresh(Null, f)
  ELSE LET new_token_data ==
             refresh_token(dict_get(token_data, "refresh_token", Null), resp, clock2, f)
       IN  [ret |-> IF new_token_data.ret # None
                    THEN dict_get(new_token_data.ret[1], "access_token", Null)
                    ELSE Null,
            file |-> new_token_data.file,
            refreshes |-> 1,
            issued |-> new_token_data.ret,
            payload |-> Some(new_token_data.payload)]

\* the expired branch of get_current_token: one refresh_token call, its access_token or None
refresh_expired(token_data, resp, clock2, f) ==
  LET new_token_data ==
        refresh_token(dict_get(token_data, "refresh_token", Null), resp, clock2, f)
  IN  [ret |-> IF new_token_data.ret # None
               THEN dict_get(new_token_data.ret[1], "access_token", Null)
               ELSE Null,
       file |-> new_token_data.file,
       refreshes |-> 1,
       issued |-> new_token_data.ret,
       payload |-> Some(new_token_data.payload)]

\* clock: datetime.now() of the expiry test; clock2: datetime.now() inside refresh_token
get_current_token(f, clock, resp, clock2) ==
  IF ~f.exists THEN NoRefresh(Null, f)
  ELSE LET loaded == json_load(f.text)
       IN  IF loaded = None THEN NoRefresh(Null, f)
           ELSE LET token_data == loaded[1]
                    expires_at == fromisoformat(dict_get(token_data, "expires_at",
                                                         isoformat(Year2000)))
                IN  IF expires_at = None THEN NoRefresh(Null, f)
                    ELSE LET ex == expired(expires_at[1], clock)
                         IN  IF ex = None THEN NoRefresh(Null, f)
                             ELSE IF ex[1]
                             THEN refresh_expired(token_data, resp, clock2, f)
                             ELSE NoRefresh(dict_get(token_data, "access_token", Null), f)

RECURSIVE lstrip(_)
\* endpoint.lstrip('/')
lstrip(e) == IF e # <<>> /\ Head(e) = "/" THEN lstrip(Tail(e)) ELSE e

\* what requests.request(...) can yield; the body is response.json()
ApiResponses ==
  {[kind |-> "http_error", body |-> Null], [kind |-> "json", body |-> Str("result")]}

BodyMethods == {"POST", "PUT", "PATCH"}

\* method.upper(), as requests does when it prepares the request
upper(method) == IF method = "post" THEN "POST" ELSE method

\* variant: the check is missing
no_token_never(tok) == FALSE

\* variant: the check is `if token is None`, so an empty token passes
no_token_isnone(tok) == tok = Null

\* if not token: return None
no_token(tok) == ~Truthy(tok)

\* variant: the header is built from the access_token read from the file at the start
make_api_request_stale(endpoint, method, params, data, f, clock, resp, clock2, api) ==
  LET token == get_current_token(f, clock, resp, clock2)
      cached == IF f.exists /\ json_load(f.text) # None
                THEN dict_get(json_load(f.text)[1], "access_token", Null)
                ELSE Null
  IN  IF no_token(token.ret)
      THEN [ret |-> None, file |-> token.file, token |-> token, sent |-> None]
      ELSE LET url == <<"https://api.beatport.com/v4/">> \o lstrip(endpoint)
               request == [method |-> upper(method), url |-> url, bearer |-> cached,
                           json |-> IF method \in BodyMethods THEN data ELSE Null]
           IN  [ret |-> IF api.kind = "json" THEN Some(api.body) ELSE None,
                file |-> token.file, token |-> token, sent |-> Some(request)]

\* api: the outcome of the API request, read only when the request is issued
make_api_request(endpoint, method, params, data, f, clock, resp, clock2, api) ==
  LET token == get_current_token(f, clock, resp, clock2)
  IN  IF no_token(token.ret)
      THEN [ret |-> None, file |-> token.file, token |-> token, sent |-> None]
      ELSE LET url == <<"https://api.beatport.com/v4/">> \o lstrip(endpoint)
               request == [method |-> upper(method), url |-> url, bearer |-> token.ret,
                           json |-> IF method \in BodyMethods THEN data ELSE Null]
           IN  [ret |-> IF api.kind = "json" THEN Some(api.body) ELSE None,
                file |-> token.file, token |-> token, sent |-> Some(request)]

(* ------------------------------- the calls ------------------------------ *)

\* what the last completed call did: its result and the requests it issued
Idle ==
  [op |-> "init", rec |-> None, tok |-> Null, result |-> None,
   posts |-> 0, refreshes |-> 0, apis |-> 0,
   resp |-> "none", body |-> EmptyDict, payload |-> None, save |-> FALSE, sent |-> None]

Usernames == {Str("user")}
Passwords == {Str("pw")}
RefreshArgs == {Null, Str("R1")}
Endpoints == {<<"/", "tracks">>}
Methods == {"GET", "POST", "PUT", "PATCH", "post"}
Params == {Null}
Datas == {Str("body")}

\* the token files a run may find at start: none, a truncated one, or a record
InitialRecords ==
  {MkDict(a, r, Absent, ea) :
     a \in {Absent, Str(""), Str("A0")}, r \in {Absent, Str("R0")},
     ea \in {Absent, Str("garbage"), AwareText(2), isoformat(2)}}

InitialFiles == {NoFile, FileOf(<<>>)} \cup {write_file(d) : d \in InitialRecords}

IdleWriter == [pc |-> "idle", op |-> "none", data |-> None, body |-> EmptyDict, pos |-> 0]
IdleReader == [pc |-> "idle", text |-> <<>>]

Init ==
  /\ file \in InitialFiles
  /\ now = 1
  /\ last = Idle
  /\ writer = IdleWriter
  /\ reader = IdleReader

\* time passes between calls
Tick ==
  /\ now < MaxNow
  /\ now' = now + 1
  /\ last' = [Idle EXCEPT !.op = "tick"]
  /\ UNCHANGED <<file, writer, reader>>

AcquireToken ==
  \E username \in Usernames, password \in Passwords, save_to_file \in BOOLEAN,
     resp \in AuthResponses :
    /\ \E r \in {get_beatport_token(username, password, save_to_file, resp, now, file)} :
           /\ file' = r.file
           /\ last' = [Idle EXCEPT !.op = "acquire", !.rec = r.ret, !.posts = 1,
                                   !.resp = resp.kind, !.body = resp.body,
                                   !.payload = Some(r.payload),
                                   !.save = save_to_file]
    /\ UNCHANGED <<now, writer, reader>>

RefreshToken ==
  \E refresh_token_str \in RefreshArgs, resp \in AuthResponses :
    /\ \E r \in {refresh_token(refresh_token_str, resp, now, file)} :
           /\ file' = r.file
           /\ last' = [Idle EXCEPT !.op = "refresh", !.rec = r.ret, !.refreshes = 1,
                                   !.resp = resp.kind, !.body = resp.body,
                                   !.payload = Some(r.payload),
                                   !.save = TRUE]
    /\ UNCHANGED <<now, writer, reader>>

\* the auth responses and latencies that can make a difference to a call on file f
RefreshInputs(f, clock) ==
  IF get_current_token(f, clock, CHOOSE r \in AuthResponses : TRUE, clock).refreshes = 0
  THEN {<<CHOOSE r \in AuthResponses : r.kind = "http_error", 0>>}
  ELSE AuthResponses \X (0..MaxLatency)

GetValidToken ==
  \E in \in RefreshInputs(file, now) :
    /\ now + in[2] <= MaxNow
    /\ \E r \in {get_current_token(file, now, in[1], now + in[2])} :
         /\ file' = r.file
         /\ last' = [Idle EXCEPT !.op = "get", !.tok = r.ret, !.rec = r.issued,
                                 !.refreshes = r.refreshes,
                                 !.resp = IF r.refreshes = 0 THEN "none" ELSE in[1].kind,
                                 !.body = IF r.refreshes = 0 THEN EmptyDict ELSE in[1].body,
                                 !.payload = r.payload,
                                 !.save = (r.refreshes = 1)]
    /\ now' = now + in[2]
    /\ UNCHANGED <<writer, reader>>

\* the request arguments and API outcomes that can make a difference once the token is tok
RequestInputs(tok) ==
  IF Truthy(tok)
  THEN Endpoints \X Methods \X Params \X Datas \X ApiResponses
  ELSE {<<CHOOSE e \in Endpoints : TRUE, "GET", Null, Null,
          CHOOSE a \in ApiResponses : a.kind = "http_error">>}

AuthenticatedRequest ==
  \E in \in RefreshInputs(file, now) :
    /\ now + in[2] <= MaxNow
    /\ \E g \in {get_current_token(file, now, in[1], now + in[2])} :
       \E a \in RequestInputs(g.ret) :
       \E r \in {make_api_request(a[1], a[2], a[3], a[4], file, now, in[1], now + in[2], a[5])} :
         /\ file' = r.file
         /\ last' = [Idle EXCEPT !.op = "request", !.tok = r.token.ret,
                                 !.rec = r.token.issued, !.result = r.ret,
                                 !.refreshes = r.token.refreshes,
                                 !.apis = Len(r.sent),
                                 !.resp = IF r.token.refreshes = 0 THEN "none" ELSE in[1].kind,
                                 !.body = IF r.token.refreshes = 0 THEN EmptyDict ELSE in[1].body,
                                 !.payload = r.token.payload,
                                 !.save = (r.token.refreshes = 1),
                                 !.sent = r.sent]
    /\ now' = now + in[2]
    /\ UNCHANGED <<writer, reader>>

Next ==
  \/ Tick
  \/ AcquireToken
  \/ RefreshToken
  \/ GetValidToken
  \/ AuthenticatedRequest

Spec == Init /\ [][Next]_vars

\* the same calls on a machine whose clock is not set: datetime.now() starts before
\* the sentinel '2000-01-01'
InitEarlyClock ==
  /\ file \in InitialFiles
  /\ now = Year2000 - 1
  /\ last = Idle
  /\ writer = IdleWriter
  /\ reader = IdleReader

SpecEarlyClock == InitEarlyClock /\ [][Next]_vars

(* ------------------- two callers sharing the token file ----------------- *)

\* One caller runs get_beatport_token or refresh_token (the writer) while another
\* runs get_current_token (the reader). The file operations of the writer are
\* separate steps: open(..., 'w') truncates, json.dump hands chunks to a buffered
\* file object, leaving the with block flushes the rest.

\* the responses the authorization endpoint gives in a concurrent run
ConcResponses ==
  {r \in AuthResponses :
     \/ r.kind = "http_error"
     \/ /\ r.kind = "dict"
        /\ r.body.access_token = Str("A")
        /\ r.body.refresh_token = Str("R1")
        /\ r.body.expires_in \in {Absent, Num(0)}
        /\ r.body.expires_at = Absent}

\* a concurrent run starts with a complete record in the file
InitConc ==
  /\ file = write_file(MkDict(Str("A0"), Str("R0"), Absent, isoformat(2)))
  /\ now = 1
  /\ last = Idle
  /\ writer = IdleWriter
  /\ reader = IdleReader

\* requests.post ... token_data['expires_at'] = ...: the writer has a record to save,
\* or fails and returns
writer_request ==
  /\ writer.pc = "idle"
  /\ \E op \in {"acquire", "refresh"}, resp \in ConcResponses :
     \E r \in {IF op = "acquire"
               THEN get_beatport_token(Str("user"), Str("pw"), TRUE, resp, now, file)
               ELSE refresh_token(Str("R1"), resp, now, file)} :
       IF r.ret = None
       THEN /\ last' = [Idle EXCEPT !.op = op, !.resp = resp.kind, !.body = resp.body,
                                    !.posts = IF op = "acquire" THEN 1 ELSE 0,
                                    !.refreshes = IF op = "refresh" THEN 1 ELSE 0,
                                    !.payload = Some(r.payload), !.save = TRUE]
            /\ UNCHANGED writer
       ELSE /\ writer' = [pc |-> "open", op |-> op, data |-> r.ret, body |-> resp.body,
                          pos |-> 0]
            /\ UNCHANGED last
  /\ UNCHANGED <<file, now, reader>>

\* open('.beatport_token.json', 'w'): the file exists and is empty
writer_open ==
  /\ writer.pc = "open"
  /\ file' = FileOf(<<>>)
  /\ writer' = [writer EXCEPT !.pc = "dump"]
  /\ UNCHANGED <<now, last, reader>>

\* json.dump(token_data, f): the buffer is flushed with the first k chunks written
writer_flush ==
  /\ writer.pc = "dump"
  /\ \E k \in (writer.pos + 1)..(Len(json_dump(writer.data[1])) - 1) :
       /\ file' = FileOf(SubSeq(json_dump(writer.data[1]), 1, k))
       /\ writer' = [writer EXCEPT !.pos = k]
  /\ UNCHANGED <<now, last, reader>>

\* leaving the with block: the whole text is in the file; return token_data
writer_close ==
  /\ writer.pc = "dump"
  /\ file' = write_file(writer.data[1])
  /\ writer' = IdleWriter
  /\ last' = [Idle EXCEPT !.op = writer.op, !.rec = writer.data,
                          !.posts = IF writer.op = "acquire" THEN 1 ELSE 0,
                          !.refreshes = IF writer.op = "refresh" THEN 1 ELSE 0,
                          !.resp = "dict", !.body = writer.body, !.save = TRUE]
  /\ UNCHANGED <<now, reader>>

\* if not os.path.exists('.beatport_token.json'): return None
reader_exists ==
  /\ reader.pc = "idle"
  /\ IF file.exists
     THEN /\ reader' = [reader EXCEPT !.pc = "open"]
          /\ UNCHANGED last
     ELSE /\ last' = [Idle EXCEPT !.op = "get"]
          /\ UNCHANGED reader
  /\ UNCHANGED <<file, now, writer>>

\* with open('.beatport_token.json', 'r') as f: the text f will yield
reader_read ==
  /\ reader.pc = "open"
  /\ reader' = [pc |-> "loaded", text |-> file.text]
  /\ UNCHANGED <<file, now, last, writer>>

\* json.load and the rest of get_current_token, on the text read; a refresh it makes
\* saves its record only while no other caller is writing
reader_return ==
  /\ reader.pc = "loaded"
  /\ \E in \in RefreshInputs(FileOf(reader.text), now) :
     \E r \in {get_current_token(FileOf(reader.text), now, in[1], now)} :
       /\ in[1] \in ConcResponses
       /\ in[2] = 0
       /\ file' = IF r.issued # None /\ writer.pc \in {"idle", "open"} THEN r.file ELSE file
       /\ last' = [Idle EXCEPT !.op = "get", !.tok = r.ret, !.rec = r.issued,
                               !.refreshes = r.refreshes,
                               !.resp = IF r.refreshes = 0 THEN "none" ELSE in[1].kind,
                               !.body = IF r.refreshes = 0 THEN EmptyDict ELSE in[1].body,
                               !.payload = r.payload,
                               !.save = (r.refreshes = 1)]
  /\ reader' = IdleReader
  /\ UNCHANGED <<now, writer>>

\* time passes
tick_conc ==
  /\ now < MaxNow
  /\ now' = now + 1
  /\ UNCHANGED <<file, last, writer, reader>>

NextConc ==
  \/ writer_request
  \/ writer_open
  \/ writer_flush
  \/ writer_close
  \/ reader_exists
  \/ reader_read
  \/ reader_return
  \/ tick_conc

SpecConc == InitConc /\ [][NextConc]_vars

(* ------------------------------ properties ------------------------------ *)

\* the record the token file holds; None when there is no file or it does not parse
Persisted == IF file.exists THEN json_load(file.text) ELSE None

\* the last call issued a record: its response was accepted as a success
Issued == last.op \in {"acquire", "refresh", "get", "request"} /\ last.rec # None

\* C1: a GetValidToken call on a record with now >= expires_at (equality included)
\* issues exactly one refresh request and no other request; when the refresh
\* succeeds the call returns the access token of the newly issued record, which
\* is the record then persisted.
C1_ExpiredRefreshesOnce ==
  [][(/\ last'.op = "get"
      /\ Persisted # None
      /\ Persisted[1].expires_at.k = "iso"
      /\ now >= Persisted[1].expires_at.n)
     => /\ last'.refreshes = 1
        /\ last'.posts = 0
        /\ last'.apis = 0
        /\ last'.rec # None =>
             /\ Persisted' = last'.rec
             /\ last'.tok = dict_get(last'.rec[1], "access_token", Null)]_vars

\* C1 witness: a GetValidToken call has refreshed an expired record and returned a token
C1_Witness ==
  /\ last.op = "get"
  /\ last.refreshes = 1
  /\ last.rec # None
  /\ last.tok = Str("A")

\* C2: a GetValidToken call on a record with now < expires_at returns the access
\* token stored in that record, issues no request at all and leaves the file alone.
C2_ValidServedFromCache ==
  [][(/\ last'.op = "get"
      /\ Persisted # None
      /\ Persisted[1].expires_at.k = "iso"
      /\ now < Persisted[1].expires_at.n)
     => /\ last'.tok = dict_get(Persisted[1], "access_token", Null)
        /\ last'.refreshes = 0
        /\ last'.posts = 0
        /\ last'.apis = 0
        /\ file' = file]_vars

\* C2 witness: a GetValidToken call has returned a cached token without a request
C2_Witness ==
  /\ last.op = "get"
  /\ last.refreshes = 0
  /\ last.tok = Str("A0")
  /\ Persisted # None
  /\ Persisted[1].expires_at.k = "iso"
  /\ now < Persisted[1].expires_at.n

\* C3: an AuthenticatedRequest call in which GetValidToken yields no token issues
\* no API request and returns the absent result.
C3_NoTokenNoRequest ==
  (last.op = "request" /\ last.tok = Null)
  => /\ last.apis = 0
     /\ last.sent = None
     /\ last.result = None

\* C3 witness: an AuthenticatedRequest call whose refresh failed
C3_Witness ==
  /\ last.op = "request"
  /\ last.tok = Null
  /\ last.refreshes = 1
  /\ last.resp = "http_error"

\* C4: a failing AcquireToken or RefreshToken (transport error, non-2xx response,
\* unparsable response, or a response it cannot turn into a record) returns the
\* absent result and leaves the presence and content of the token file as they were.
C4_FailureLeavesFile ==
  [][(last'.op \in {"acquire", "refresh"} \/ last'.refreshes = 1)
     => /\ last'.resp # "dict" => last'.rec = None
        /\ last'.rec = None => file' = file]_vars

\* C4 witness: a RefreshToken call was rejected while a readable record is persisted
C4_Witness ==
  /\ last.op = "refresh"
  /\ last.resp = "http_error"
  /\ last.rec = None
  /\ Persisted # None

\* C5 as stated: every successful AcquireToken call, whatever its arguments, leaves
\* the persisted record equal to the record it returns.
C5_Original ==
  [][(last'.op = "acquire" /\ last'.rec # None) => Persisted' = last'.rec]_vars

\* C5 amended: a successful AcquireToken call with save_to_file true leaves the
\* persisted record equal to the record it returns, expires_at included; with
\* save_to_file false it leaves the file as it was.
C5_SavedEqualsReturned ==
  [][(last'.op = "acquire" /\ last'.rec # None)
     => IF last'.save THEN Persisted' = last'.rec ELSE file' = file]_vars

\* C5 witness: a saving AcquireToken call has succeeded
C5_Witness ==
  /\ last.op = "acquire"
  /\ last.rec # None
  /\ last.save
  /\ file.exists

\* C6: the expires_at of every issued record spells the local clock at issuance plus
\* the record's expires_in (3600 when the response has none), whatever expires_at
\* the response or the cached record carried.
C6_ExpiresAtIsClockPlusExpiresIn ==
  Issued =>
    LET d == last.rec[1]
    IN  d.expires_at =
          isoformat(now + (IF d.expires_in.k = "num" THEN d.expires_in.n
                           ELSE DefaultExpiresIn))

\* C6 witness: a refresh inside GetValidToken has issued a record with a numeric expires_in
C6_Witness ==
  /\ last.op = "get"
  /\ last.rec # None
  /\ last.rec[1].expires_in = Num(1)

\* C7: the record a call has persisted reloads with the access_token and the
\* refresh_token of the record the call returned, and a GetValidToken call at any
\* clock value before its expires_at returns that access_token without a request.
C7_RoundTrip ==
  (Issued /\ last.save) =>
    /\ Persisted # None
    /\ Persisted[1].access_token = last.rec[1].access_token
    /\ Persisted[1].refresh_token = last.rec[1].refresh_token
    /\ \A t \in now..(MaxNow + 1), resp \in AuthResponses :
         t < last.rec[1].expires_at.n =>
           LET g == get_current_token(file, t, resp, t)
           IN  /\ g.ret = dict_get(last.rec[1], "access_token", Null)
               /\ g.refreshes = 0

\* C7 witness: a saving AcquireToken call has returned both tokens
C7_Witness ==
  /\ last.op = "acquire"
  /\ last.save
  /\ last.rec # None
  /\ last.rec[1].access_token = Str("A")
  /\ last.rec[1].refresh_token = Str("R1")
  /\ now < last.rec[1].expires_at.n

\* C8 as stated: with no token file, GetValidToken returns the absent result, issues
\* no request and creates no file, and the file appears only by a successful AcquireToken.
C8_Original ==
  [][~file.exists
     => /\ last'.op = "get" =>
             (last'.tok = Null /\ last'.refreshes = 0 /\ ~file'.exists)
        /\ file'.exists => (last'.op = "acquire" /\ last'.rec # None)]_vars

\* C8 amended: with no token file, GetValidToken returns the absent result, issues no
\* request and creates no file, and the file appears only by a successful saving
\* AcquireToken or a successful directly called RefreshToken.
C8_AbsentStaysAbsent ==
  [][~file.exists
     => /\ last'.op = "get" =>
             (last'.tok = Null /\ last'.refreshes = 0 /\ ~file'.exists)
        /\ file'.exists =>
             (last'.op \in {"acquire", "refresh"} /\ last'.rec # None /\ last'.save)]_vars

\* C8 witness: GetValidToken has been called with no token file
C8_Witness ==
  /\ last.op = "get"
  /\ ~file.exists
  /\ last.tok = Null

\* the record carries a lifetime that ends after its issuance
PositiveLifetime(d) == d.expires_in.k = "num" => d.expires_in.n > 0

\* C9 as stated: after a refresh inside GetValidToken has succeeded, for every
\* accepted response, a further GetValidToken call at that clock value returns the
\* new access token without a refresh request.
C9_Original ==
  [][(/\ last.op \in {"get", "request"}
      /\ last.refreshes = 1
      /\ last.rec # None
      /\ last'.op = "get")
     => /\ last'.refreshes = 0
        /\ last'.tok = dict_get(last.rec[1], "access_token", Null)]_vars

\* C9 amended: the same, for every accepted response whose expires_in is absent or
\* positive; a response with expires_in <= 0 leaves the record expired.
C9_RefreshedIsValid ==
  [][(/\ last.op \in {"get", "request"}
      /\ last.refreshes = 1
      /\ last.rec # None
      /\ PositiveLifetime(last.rec[1])
      /\ last'.op = "get")
     => /\ last'.refreshes = 0
        /\ last'.tok = dict_get(last.rec[1], "access_token", Null)
        /\ file' = file]_vars

\* C9 witness: a refresh inside GetValidToken has issued a record with a positive lifetime
C9_Witness ==
  /\ last.op = "get"
  /\ last.refreshes = 1
  /\ last.rec # None
  /\ PositiveLifetime(last.rec[1])
  /\ Persisted = last.rec

\* C10 as stated: whatever another caller is doing to the file, the text a
\* GetValidToken call reads is a complete record, never an empty or cut one.
C10_ReaderSeesCompleteRecord ==
  reader.pc = "loaded" => json_load(reader.text) # None

\* C11 as stated: a GetValidToken call on a record without an expires_at field
\* makes a refresh request at every clock value and returns the access token of
\* the refreshed record or the absent result, never the cached token.
C11_MissingExpiresAtAlwaysRefreshes ==
  [][(/\ last'.op = "get"
      /\ Persisted # None
      /\ Persisted[1].expires_at = Absent)
     => /\ last'.refreshes = 1
        /\ last'.rec = None => last'.tok = Null
        /\ last'.rec # None => last'.tok = dict_get(last'.rec[1], "access_token", Null)]_vars

\* C12: no call repeats a request. AcquireToken and RefreshToken issue one request
\* to the authorization endpoint, GetValidToken at most one refresh request and
\* nothing else, AuthenticatedRequest at most one refresh request and at most one
\* API request; a call whose authorization request failed returns the absent result
\* and issues nothing further.
C12_NoRetry ==
  /\ last.posts + last.refreshes <= 1
  /\ last.apis <= 1
  /\ last.op = "acquire" => (last.posts = 1 /\ last.apis = 0)
  /\ last.op = "refresh" => (last.refreshes = 1 /\ last.apis = 0)
  /\ last.op = "get" => (last.posts = 0 /\ last.apis = 0)
  /\ last.op = "request" => last.posts = 0
  /\ (last.posts + last.refreshes >= 1 /\ last.resp # "dict") =>
       /\ last.rec = None
       /\ last.tok = Null
       /\ last.apis = 0
       /\ last.result = None

\* C12 witness: an AuthenticatedRequest call whose one refresh request got no answer
C12_Witness ==
  /\ last.op = "request"
  /\ last.refreshes = 1
  /\ last.resp = "conn_error"
  /\ last.apis = 0

\* C13: the bearer token an AuthenticatedRequest call sends is the token its
\* GetValidToken step returned; after a successful refresh in that call it is the
\* access token of the issued record, which is the record then persisted.
C13_BearerIsCurrentToken ==
  (last.op = "request" /\ last.sent # None) =>
    /\ last.sent[1].bearer = last.tok
    /\ last.rec # None =>
         /\ last.sent[1].bearer = dict_get(last.rec[1], "access_token", Null)
         /\ Persisted = last.rec

\* C13 witness: an AuthenticatedRequest call has refreshed and sent its request
C13_Witness ==
  /\ last.op = "request"
  /\ last.refreshes = 1
  /\ last.rec # None
  /\ last.sent # None
  /\ last.payload[1].refresh_token = Str("R0")

\* C14: GetValidToken and AuthenticatedRequest leave the file as it was unless the
\* refresh of that call succeeded, and then the file holds the record it issued; on
\* a record with now < expires_at the file is unchanged whatever the API answers.
C14_FileChangesOnlyByRefresh ==
  [][last'.op \in {"get", "request"}
     => /\ file' = file \/ (last'.rec # None /\ file' = FileOf(json_dump(last'.rec[1])))
        /\ last'.rec = None => file' = file
        /\ (/\ Persisted # None
            /\ Persisted[1].expires_at.k = "iso"
            /\ now < Persisted[1].expires_at.n) => file' = file]_vars

\* C14 witness: an AuthenticatedRequest call on a valid record whose API request failed
C14_Witness ==
  /\ last.op = "request"
  /\ last.refreshes = 0
  /\ last.sent # None
  /\ last.result = None
  /\ Persisted # None

\* the record a call builds from the response body it accepted at clock value t
RecordFrom(body, t) ==
  [body EXCEPT !.expires_at =
     isoformat(t + (IF body.expires_in.k = "num" THEN body.expires_in.n
                    ELSE DefaultExpiresIn))]

\* C15: after every successful saving AcquireToken or RefreshToken the file holds
\* one record and nothing else: the fields of the server response plus the computed
\* expires_at; a field the response omits is absent from the file, whatever the
\* record before held.
C15_ReplacedWholesale ==
  [][(/\ last'.op \in {"acquire", "refresh", "get", "request"}
      /\ last'.rec # None
      /\ last'.save)
     => /\ file' = FileOf(json_dump(RecordFrom(last'.body, now')))
        /\ Persisted' = Some(RecordFrom(last'.body, now'))
        /\ \A k \in KeySet \ {"expires_at"} :
             last'.body[k] = Absent => Persisted'[1][k] = Absent]_vars

\* C15 witness: a refresh sent the cached refresh token R0 and the response brought none
C15_Witness ==
  /\ last.op = "get"
  /\ last.rec # None
  /\ last.payload[1].refresh_token = Str("R0")
  /\ last.body.refresh_token = Absent
  /\ Persisted # None

\* C16: no call destroys the record: a step from a state where a complete record is
\* persisted leads to a state where a complete record is persisted.
C16_RecordNeverDestroyed ==
  [][Persisted # None => Persisted' # None]_vars

\* C16 witness: a record is still persisted after a call that returned the absent result
C16_Witness ==
  /\ last.op = "get"
  /\ last.refreshes = 1
  /\ last.rec = None
  /\ last.tok = Null
  /\ Persisted # None

\* C17 as stated: the request AuthenticatedRequest sends carries the caller's body
\* exactly when its HTTP method is POST, PUT or PATCH, for every method value passed.
C17_BodyForMutatingMethods ==
  (last.op = "request" /\ last.sent # None) =>
    (last.sent[1].json # Null <=> last.sent[1].method \in {"POST", "PUT", "PATCH"})

\* C18: a GetValidToken call on an expired record without a refresh_token issues one
\* refresh request whose refresh_token is None, and returns what that request yields:
\* the new access token on success, the absent result on failure.
C18_RefreshWithoutRefreshToken ==
  [][(/\ last'.op = "get"
      /\ Persisted # None
      /\ Persisted[1].expires_at.k = "iso"
      /\ now >= Persisted[1].expires_at.n
      /\ Persisted[1].refresh_token = Absent)
     => /\ last'.refreshes = 1
        /\ last'.payload # None
        /\ last'.payload[1].grant_type = "refresh_token"
        /\ last'.payload[1].refresh_token = Null
        /\ last'.resp = "dict" \/ last'.rec = None
        /\ last'.rec = None => (last'.tok = Null /\ file' = file)
        /\ last'.rec # None =>
             last'.tok = dict_get(RecordFrom(last'.body, now'), "access_token", Null)]_vars

\* C18 witness: a refresh request without a refresh token was made and succeeded
C18_Witness ==
  /\ last.op = "get"
  /\ last.refreshes = 1
  /\ last.payload # None
  /\ last.payload[1].refresh_token = Null
  /\ last.rec # None
  /\ last.tok = Str("A")

\* C19: on a record with now < expires_at whose access_token is missing or empty,
\* GetValidToken returns that missing or empty value without a refresh, and
\* AuthenticatedRequest issues no API request and returns the absent result.
C19_EmptyTokenIsNoToken ==
  [][(/\ last'.op \in {"get", "request"}
      /\ Persisted # None
      /\ Persisted[1].expires_at.k = "iso"
      /\ now < Persisted[1].expires_at.n
      /\ Persisted[1].access_token \in {Absent, Str("")})
     => /\ last'.tok = dict_get(Persisted[1], "access_token", Null)
        /\ last'.refreshes = 0
        /\ last'.apis = 0
        /\ last'.sent = None
        /\ last'.result = None
        /\ file' = file]_vars

\* C19 witness: an AuthenticatedRequest call found an empty access_token in a valid record
C19_Witness ==
  /\ last.op = "request"
  /\ last.tok = Str("")
  /\ last.refreshes = 0
  /\ last.apis = 0

====
